---- MODULE Spec2Model ----
(***************************************************************************)
(* State-machine model of the sqlite_object containers: SqliteList         *)
(* (src/sqlite_object/_sqlite_list.py) and SqliteDict                      *)
(* (src/sqlite_object/_sqlite_dict.py), each on top of one sqlite          *)
(* connection owned by the SqliteObject base class.                        *)
(*                                                                         *)
(* A table is a function from its primary key to the encoded text of the   *)
(* value column.  An SQL scalar that may be NULL is a set with at most one *)
(* element ({} is NULL), so NULL + 1 is NULL as in the engine.             *)
(*                                                                         *)
(* The connection keeps one transaction at a time.  INSERT, REPLACE and    *)
(* DELETE open it implicitly when none is open, BEGIN TRANSACTION opens it *)
(* explicitly and is rejected by the engine while one is open, and only a  *)
(* commit closes it.  _do_write() of the base class commits once           *)
(* commit_every writes have been counted.                                  *)
(*                                                                         *)
(* Spec is one SqliteList alone in its backing file, SpecDict one          *)
(* SqliteDict and SpecSet one SqliteSet alone in theirs; there every       *)
(* method is one atomic step.  SpecSlice adds slicing to the list,         *)
(* SpecView the keys(), items() and values() views to the dict.            *)
(* SpecMapSet and SpecBatch take either kind of container.  SpecThreads    *)
(* has two threads calling one SqliteDict, a step per statement, with the  *)
(* container lock taken where the code takes it.                           *)
(* SpecAlgebra adds the set comparisons, SpecShared puts a named list on   *)
(* a file that holds another list's table, SpecPositions keeps the         *)
(* mutating calls of the list only, SpecIter has two threads advancing     *)
(* iterators of one list and SpecPops two threads popping one list or one  *)
(* dict.                                                                   *)
(***************************************************************************)
EXTENDS Integers, Sequences, FiniteSets, TLC

\* ---------------------------------------------------------------- bounds
MaxLen == 3             \* rows a table may hold before inserts are disabled
MaxPos == 3             \* list_index stays within -MaxPos..MaxPos
MaxCommitEvery == 2     \* commit_every is drawn from 0..MaxCommitEvery
MaxUncommitted == 3     \* statements a transaction may hold before writes are disabled
MaxStep == 2            \* slice steps are drawn from -MaxStep..MaxStep
MaxOther == 2           \* elements of the operand a set is compared with
MaxLegacy == 2          \* rows of the other list sharing the backing file

Values == {"a", "b"}    \* values handed to the containers
DictKeys == {"k1", "k2", "k3"}
Items == {"x", "y", "z"}  \* items handed to the set
NoDefault == "None"       \* default=None
Names == {"", "seq"}    \* name=None (falsy) or a logical container name
Positions == (-MaxPos)..MaxPos
Indexes == (-(MaxLen + 1))..(MaxLen + 1)

\* --------------------------------------------------- results of a call
NoValue == "-"
NoError == "none"
IndexOutOfRange == "IndexError: Sequence index out of range."
EmptyContainer == "IndexError: pop from empty list"
NameErrorCusror == "NameError: name 'cusror' is not defined"
NestedTransaction == "OperationalError: cannot start a transaction within a transaction"
NoSuchTable == "OperationalError: no such table"
IntegrityError == "IntegrityError: UNIQUE constraint failed"
NoRowTypeError == "TypeError: 'NoneType' object is not subscriptable"
KeyNotFound == "KeyError: Mapping key not found in dict"
DictEmpty == "KeyError: Dict has no more items to pop"
SetEmpty == "KeyError: Tried to pop empty set_table"
SetKeyNotFound == "KeyError: 'table_name'"

\* the error kinds of the design, as sets of the exceptions the code raises
KeyNotFoundKind == {KeyNotFound, SetKeyNotFound}
EmptyContainerKind == {EmptyContainer, DictEmpty, SetEmpty}

VARIABLES
    table_name,       \* self.table_name
    db,               \* the backing file: table name -> (primary key -> text)
    commit_every,     \* commit_every given to the constructor
    commit_counter,   \* writes recorded since the last batch commit
    in_transaction,   \* the connection has an open transaction
    last,             \* the last call: operation, arguments, result, error
    uncommitted,      \* mutating statements executed since the last commit
    view,             \* the map view object the caller holds, if any
    lock,             \* self.lock: the thread that owns it and how often
    pc                \* per thread: the method it is in and its position

vars == <<table_name, db, commit_every, commit_counter, in_transaction, last,
          uncommitted, view, lock, pc>>

\* what a call made by the single caller of Spec and SpecDict leaves alone
idle == <<view, lock, pc>>

\* ------------------------------------------------- callers and views
Threads == {"t1", "t2"}
NoThread == "nobody"
Unlocked == [owner |-> NoThread, count |-> 0]
Idle == [op |-> "idle", at |-> "idle", key |-> NoValue, val |-> NoValue]
NoView == "no view"

\* ------------------------------------------------------------ helpers
Min(S) == CHOOSE x \in S : \A y \in S : x <= y
Max(S) == CHOOSE x \in S : \A y \in S : x >= y

\* coder=json.dumps, decoder=json.loads
coder(v) == <<"json", v>>
decoder(text) == text[2]

EmptyTable == [p \in {} |-> coder(NoValue)]

\* SQL: NULL-propagating addition
SqlAdd(scalar, n) == {x + n : x \in scalar}

\* SQL: INTEGER PRIMARY KEY given NULL takes the next rowid
NextRowid(rows) == IF DOMAIN rows = {} THEN 1 ELSE Max(DOMAIN rows) + 1

RowidFor(rows, scalar) ==
    IF scalar = {} THEN NextRowid(rows) ELSE CHOOSE x \in scalar : TRUE

\* SQL: INSERT INTO (fails on an existing primary key)
InsertConflicts(rows, pk) == pk \in DOMAIN rows

\* SQL: REPLACE INTO / INSERT of a fresh key
Put(rows, pk, text) ==
    [q \in DOMAIN rows \cup {pk} |-> IF q = pk THEN text ELSE rows[q]]

\* SQL: DELETE ... WHERE pk = ?
Delete(rows, pk) == [q \in DOMAIN rows \ {pk} |-> rows[q]]

\* SQL: SELECT value ... WHERE list_index = <scalar>; fetchone()
FetchOne(rows, scalar) == {rows[p] : p \in scalar \cap DOMAIN rows}

Call(op, arg, key, ret, out, err) ==
    [op |-> op, arg |-> arg, key |-> key, ret |-> ret, out |-> out, err |-> err]

Returned(op, arg, key, ret) == Call(op, arg, key, ret, <<>>, NoError)

Raised(op, arg, key, err) == Call(op, arg, key, NoValue, <<>>, err)

\* ------------------------------------------------ SqliteObject (engine)
\* _do_write: count the write, commit when the batch threshold is reached
DoWriteCommits(counter) == counter + 1 >= commit_every

DoWriteCounter(counter) == IF DoWriteCommits(counter) THEN 0 ELSE counter + 1

\* a mutating statement followed by _do_write(): the statement opens a
\* transaction that lasts until the next commit
RecordWrite ==
    /\ uncommitted < MaxUncommitted \/ DoWriteCommits(commit_counter)
    /\ commit_counter' = DoWriteCounter(commit_counter)
    /\ in_transaction' = ~DoWriteCommits(commit_counter)
    /\ uncommitted' = IF DoWriteCommits(commit_counter) THEN 0 ELSE uncommitted + 1

\* ------------------------------------------------------- SqliteList
ListTableName(name) == IF name = "" THEN "list" ELSE name \o "_list_table"

Rows == db[table_name]

getlen(rows) == Cardinality(DOMAIN rows)

getmin(rows) == IF DOMAIN rows = {} THEN {} ELSE {Min(DOMAIN rows)}

getmax(rows) == IF DOMAIN rows = {} THEN {} ELSE {Max(DOMAIN rows)}

\* (SELECT MAX(list_index) FROM t) + 1
AppendIndexMutant(rows) == getmax(rows)

AppendIndex(rows) == SqlAdd(getmax(rows), 1)

\* (SELECT MIN(list_index) FROM t) - 1
PrependIndexMutant(rows) == SqlAdd(getmax(rows), 1)

PrependIndex(rows) == SqlAdd(getmin(rows), -1)

\* ORDER BY list_index ASC / DESC, decoded
RECURSIVE Ascending(_)
Ascending(rows) ==
    IF DOMAIN rows = {} THEN <<>>
    ELSE LET p == Min(DOMAIN rows)
         IN <<decoder(rows[p])>> \o Ascending(Delete(rows, p))

RECURSIVE Descending(_)
Descending(rows) ==
    IF DOMAIN rows = {} THEN <<>>
    ELSE LET p == Max(DOMAIN rows)
         IN <<decoder(rows[p])>> \o Descending(Delete(rows, p))

InitList ==
    /\ \E name \in Names :
          /\ table_name = ListTableName(name)
          /\ db = [t \in {ListTableName(name)} |-> EmptyTable]
    /\ commit_every \in 0..MaxCommitEvery
    /\ commit_counter = 0
    /\ in_transaction = FALSE
    /\ last = Call("init", NoValue, 0, NoValue, <<>>, NoError)
    /\ uncommitted = 0
    /\ view = NoView
    /\ lock = Unlocked
    /\ pc = [t \in Threads |-> Idle]

\* __getitem__ / __setitem__: the logical index an int key resolves to,
\* {} when the call raises IndexError
GetResolveMutant(key, length) ==
    IF key >= length THEN {}
    ELSE IF key < 0
         THEN (IF length + key + 1 >= length \/ length + key + 1 < 0
               THEN {} ELSE {length + key + 1})
         ELSE {key}

GetResolve(key, length) ==
    IF key >= length THEN {}
    ELSE IF key < 0
         THEN (IF length + key >= length \/ length + key < 0
               THEN {} ELSE {length + key})
         ELSE {key}

SetResolveMutant(key, length) ==
    LET k == IF key < 0 THEN length + key ELSE key IN
    IF k < 0 THEN {} ELSE IF k > length THEN {} ELSE {k}

SetResolve(key, length) ==
    LET k == IF key < 0 THEN length + key ELSE key IN
    IF k < 0 THEN {} ELSE IF k >= length THEN {} ELSE {k}

\* (SELECT MIN(list_index) FROM t) + ?
ItemIndexMutant(rows, k) == {k}

ItemIndex(rows, k) == SqlAdd(getmin(rows), k)

\* the table the REPLACE statement of __setitem__ names
SetItemTable == "list"

\* what self[key] gives on the table rows: the value returned or the error
GetItemResult(rows, key) ==
    LET r == GetResolve(key, getlen(rows)) IN
    IF r = {} THEN [ret |-> NoValue, err |-> IndexOutOfRange]
    ELSE LET row == FetchOne(rows, ItemIndex(rows, CHOOSE k \in r : TRUE)) IN
         IF row = {} THEN [ret |-> NoValue, err |-> NoRowTypeError]
         ELSE [ret |-> decoder(CHOOSE text \in row : TRUE), err |-> NoError]

\* the row pop_last / pop_first reads and deletes
PopLastIndex(rows) == getmax(rows)

PopFirstIndex(rows) == getmin(rows)

append(item) ==
    LET pk == RowidFor(Rows, AppendIndex(Rows)) IN
    /\ getlen(Rows) < MaxLen
    /\ pk \in Positions
    /\ IF InsertConflicts(Rows, pk)
       THEN /\ last' = Raised("append", item, 0, IntegrityError)
            /\ UNCHANGED <<db, commit_counter, in_transaction, uncommitted>>
       ELSE /\ db' = [db EXCEPT ![table_name] = Put(Rows, pk, coder(item))]
            /\ RecordWrite
            /\ last' = Returned("append", item, 0, NoValue)
    /\ UNCHANGED <<table_name, commit_every, idle>>

prepend(item) ==
    LET pk == RowidFor(Rows, PrependIndex(Rows)) IN
    /\ getlen(Rows) < MaxLen
    /\ pk \in Positions
    /\ IF InsertConflicts(Rows, pk)
       THEN /\ last' = Raised("prepend", item, 0, IntegrityError)
            /\ UNCHANGED <<db, commit_counter, in_transaction, uncommitted>>
       ELSE /\ db' = [db EXCEPT ![table_name] = Put(Rows, pk, coder(item))]
            /\ RecordWrite
            /\ last' = Returned("prepend", item, 0, NoValue)
    /\ UNCHANGED <<table_name, commit_every, idle>>

\* pop_last: BEGIN TRANSACTION, length test, SELECT, DELETE,
\* self._db.commit(), self._do_write()
pop_last ==
    /\ IF in_transaction
       THEN /\ last' = Raised("pop_last", NoValue, 0, NestedTransaction)
            /\ UNCHANGED <<db, commit_counter, in_transaction, uncommitted>>
       ELSE IF getlen(Rows) < 1
       THEN /\ in_transaction' = TRUE
            /\ last' = Raised("pop_last", NoValue, 0, NameErrorCusror)
            /\ UNCHANGED <<db, commit_counter, uncommitted>>
       ELSE LET row == FetchOne(Rows, PopLastIndex(Rows)) IN
            /\ db' = [db EXCEPT ![table_name] =
                         Delete(Rows, CHOOSE p \in PopLastIndex(Rows) : TRUE)]
            /\ in_transaction' = FALSE
            /\ uncommitted' = 0
            /\ commit_counter' = DoWriteCounter(commit_counter)
            /\ last' = Returned("pop_last", NoValue, 0,
                                decoder(CHOOSE text \in row : TRUE))
    /\ UNCHANGED <<table_name, commit_every, idle>>

\* pop_first: the same at MIN(list_index)
pop_first ==
    /\ IF in_transaction
       THEN /\ last' = Raised("pop_first", NoValue, 0, NestedTransaction)
            /\ UNCHANGED <<db, commit_counter, in_transaction, uncommitted>>
       ELSE IF getlen(Rows) < 1
       THEN /\ in_transaction' = TRUE
            /\ last' = Raised("pop_first", NoValue, 0, NameErrorCusror)
            /\ UNCHANGED <<db, commit_counter, uncommitted>>
       ELSE LET row == FetchOne(Rows, PopFirstIndex(Rows)) IN
            /\ db' = [db EXCEPT ![table_name] =
                         Delete(Rows, CHOOSE p \in PopFirstIndex(Rows) : TRUE)]
            /\ in_transaction' = FALSE
            /\ uncommitted' = 0
            /\ commit_counter' = DoWriteCounter(commit_counter)
            /\ last' = Returned("pop_first", NoValue, 0,
                                decoder(CHOOSE text \in row : TRUE))
    /\ UNCHANGED <<table_name, commit_every, idle>>

getitem(key) ==
    LET res == GetItemResult(Rows, key) IN
    /\ last' = Call("getitem", NoValue, key, res.ret, <<>>, res.err)
    /\ UNCHANGED <<table_name, db, commit_every, commit_counter, in_transaction,
                   uncommitted, idle>>

setitem(key, value) ==
    LET r == SetResolve(key, getlen(Rows)) IN
    /\ IF r = {}
       THEN /\ last' = Raised("setitem", value, key, IndexOutOfRange)
            /\ UNCHANGED <<db, commit_counter, in_transaction, uncommitted>>
       ELSE IF SetItemTable \notin DOMAIN db
       THEN /\ last' = Raised("setitem", value, key, NoSuchTable)
            /\ UNCHANGED <<db, commit_counter, in_transaction, uncommitted>>
       ELSE LET target == db[SetItemTable]
                pk == RowidFor(target, ItemIndex(Rows, CHOOSE k \in r : TRUE))
            IN /\ pk \in Positions
               /\ getlen(Put(target, pk, coder(value))) <= MaxLen
               /\ db' = [db EXCEPT ![SetItemTable] = Put(target, pk, coder(value))]
               /\ RecordWrite
               /\ last' = Returned("setitem", value, key, NoValue)
    /\ UNCHANGED <<table_name, commit_every, idle>>

iter ==
    /\ last' = Call("iter", NoValue, 0, NoValue, Ascending(Rows), NoError)
    /\ UNCHANGED <<table_name, db, commit_every, commit_counter, in_transaction,
                   uncommitted, idle>>

reversed ==
    /\ last' = Call("reversed", NoValue, 0, NoValue, Descending(Rows), NoError)
    /\ UNCHANGED <<table_name, db, commit_every, commit_counter, in_transaction,
                   uncommitted, idle>>

\* clear: DELETE FROM t, with no _do_write()
clear ==
    /\ uncommitted < MaxUncommitted
    /\ db' = [db EXCEPT ![table_name] = EmptyTable]
    /\ in_transaction' = TRUE
    /\ uncommitted' = uncommitted + 1
    /\ last' = Returned("clear", NoValue, 0, NoValue)
    /\ UNCHANGED <<table_name, commit_every, commit_counter, idle>>

NextList ==
    \/ \E v \in Values : append(v)
    \/ \E v \in Values : prepend(v)
    \/ pop_last
    \/ pop_first
    \/ \E k \in Indexes : getitem(k)
    \/ \E k \in Indexes, v \in Values : setitem(k, v)
    \/ iter
    \/ reversed
    \/ clear

Spec == InitList /\ [][NextList]_vars

\* ------------------------------------- SqliteList, the mutating calls
NextPositions ==
    \/ \E v \in Values : append(v)
    \/ \E v \in Values : prepend(v)
    \/ \E k \in Indexes, v \in Values : setitem(k, v)
    \/ pop_first
    \/ pop_last
    \/ clear

SpecPositions == InitList /\ [][NextPositions]_vars

\* ------------------------------------------------- SqliteList slicing
\* a slice component: {} for None, {n} for the integer n
SliceBounds == {{}} \cup {{n} : n \in Indexes}
SliceSteps == {{}} \cup {{n} : n \in (-MaxStep)..MaxStep}

SliceStepZero == "ValueError: slice step cannot be zero"

\* slice.indices(length): the start, stop and step a range slice uses
AdjustIndex(bound, length, lower, upper, default) ==
    IF bound = {} THEN default
    ELSE LET n == CHOOSE m \in bound : TRUE IN
         IF n < 0 THEN Max({n + length, lower}) ELSE Min({n, upper})

\* range(length)[start:stop:step] as the sequence of its integers
RangeSlice(length, start, stop, step) ==
    LET st == IF step = {} THEN 1 ELSE CHOOSE m \in step : TRUE
        lo == IF st > 0 THEN 0 ELSE -1
        hi == IF st > 0 THEN length ELSE length - 1
        a  == AdjustIndex(start, length, lo, hi, IF st > 0 THEN lo ELSE hi)
        b  == AdjustIndex(stop, length, lo, hi, IF st > 0 THEN hi ELSE lo)
        n  == IF st > 0
              THEN (IF a < b THEN (b - a - 1) \div st + 1 ELSE 0)
              ELSE (IF b < a THEN (a - b - 1) \div (-st) + 1 ELSE 0)
    IN [j \in 1..n |-> a + (j - 1) * st]

\* _iterate: for i in irange: if i >= 0 and i < length: yield self[i]
IterateMutant(rows, length, irange) ==
    LET kept == SelectSeq(irange, LAMBDA i : i > 0 /\ i < length)
    IN [j \in 1..Len(kept) |-> GetItemResult(rows, kept[j]).ret]

Iterate(rows, length, irange) ==
    LET kept == SelectSeq(irange, LAMBDA i : i >= 0 /\ i < length)
    IN [j \in 1..Len(kept) |-> GetItemResult(rows, kept[j]).ret]

\* l[start:stop:step], consumed before the list is touched again
getslice(start, stop, step) ==
    /\ last' = IF step = {0}
               THEN Call("getslice", <<start, stop, step>>, 0, NoValue, <<>>,
                         SliceStepZero)
               ELSE Call("getslice", <<start, stop, step>>, 0, NoValue,
                         Iterate(Rows, getlen(Rows),
                                 RangeSlice(getlen(Rows), start, stop, step)),
                         NoError)
    /\ UNCHANGED <<table_name, db, commit_every, commit_counter, in_transaction,
                   uncommitted, idle>>

InitSlice ==
    /\ InitList
    /\ table_name = ListTableName("")
    /\ commit_every = 0

\* a slice changes nothing, so a second slice in a row would see the list
\* the first one saw: one slice is taken after each call that may change it
NextSlice ==
    \/ \E v \in Values : append(v)
    \/ \E v \in Values : prepend(v)
    \/ pop_first
    \/ /\ last.op # "getslice"
       /\ \E start \in SliceBounds, stop \in SliceBounds, step \in SliceSteps :
             getslice(start, stop, step)

SpecSlice == InitSlice /\ [][NextSlice]_vars

\* ------------------------------- SqliteList sharing its backing file
\* the table of a SqliteList(name=None) on the same file, as that list's
\* appends left it: rows 1..n
LegacyTables ==
    UNION {[1..n -> {coder(v) : v \in Values}] : n \in 0..MaxLegacy}

\* a SqliteList(name="seq") constructed on a file that already holds the
\* table of a SqliteList(name=None)
InitShared ==
    /\ table_name = ListTableName("seq")
    /\ \E legacy \in LegacyTables :
          db = [t \in {ListTableName(""), ListTableName("seq")} |->
                  IF t = ListTableName("") THEN legacy ELSE EmptyTable]
    /\ commit_every = 0
    /\ commit_counter = 0
    /\ in_transaction = FALSE
    /\ last = Call("init", NoValue, 0, NoValue, <<>>, NoError)
    /\ uncommitted = 0
    /\ view = NoView
    /\ lock = Unlocked
    /\ pc = [t \in Threads |-> Idle]

\* the calls of the named list that grow it at the end, shrink it and
\* write into it (prepend is explored in Spec)
NextShared ==
    \/ \E v \in Values : append(v)
    \/ pop_last
    \/ pop_first
    \/ \E k \in Indexes, v \in Values : setitem(k, v)
    \/ clear

SpecShared == InitShared /\ [][NextShared]_vars

\* ------------------------------------------------------- SqliteDict
DictTableName(name) == IF name = "" THEN "dict" ELSE name \o "_dict_table"

InitDict ==
    /\ \E name \in Names :
          /\ table_name = DictTableName(name)
          /\ db = [t \in {DictTableName(name)} |-> EmptyTable]
    /\ commit_every \in 0..MaxCommitEvery
    /\ commit_counter = 0
    /\ in_transaction = FALSE
    /\ last = Call("init", NoValue, NoValue, NoValue, <<>>, NoError)
    /\ uncommitted = 0
    /\ view = NoView
    /\ lock = Unlocked
    /\ pc = [t \in Threads |-> Idle]

\* SELECT value FROM t WHERE key = ?; fetchone(); decode or KeyError
DictGetItemResult(rows, key) ==
    LET row == FetchOne(rows, {coder(key)}) IN
    IF row = {} THEN [ret |-> NoValue, err |-> KeyNotFound]
    ELSE [ret |-> decoder(CHOOSE text \in row : TRUE), err |-> NoError]

\* REPLACE INTO t (key, value) VALUES (?, ?)
DictReplaceMutant(rows, key, value) ==
    IF coder(key) \in DOMAIN rows THEN rows
    ELSE Put(rows, coder(key), coder(value))

DictReplace(rows, key, value) == Put(rows, coder(key), coder(value))

\* DELETE FROM t WHERE key = ?
DictDeleteMutant(rows, key) == EmptyTable

DictDelete(rows, key) == Delete(rows, coder(key))

dict_getitem(key) ==
    LET res == DictGetItemResult(Rows, key) IN
    /\ last' = Call("getitem", NoValue, key, res.ret, <<>>, res.err)
    /\ UNCHANGED <<table_name, db, commit_every, commit_counter, in_transaction,
                   uncommitted, idle>>

dict_setitem(key, value) ==
    /\ db' = [db EXCEPT ![table_name] = DictReplace(Rows, key, value)]
    /\ RecordWrite
    /\ last' = Returned("setitem", value, key, NoValue)
    /\ UNCHANGED <<table_name, commit_every, idle>>

dict_delitem(key) ==
    /\ db' = [db EXCEPT ![table_name] = DictDelete(Rows, key)]
    /\ RecordWrite
    /\ last' = Returned("delitem", NoValue, key, NoValue)
    /\ UNCHANGED <<table_name, commit_every, idle>>

\* __contains__: self[key] raised KeyError or not
dict_contains(key) ==
    /\ last' = Returned("contains", NoValue, key,
                        IF DictGetItemResult(Rows, key).err = KeyNotFound
                        THEN "False" ELSE "True")
    /\ UNCHANGED <<table_name, db, commit_every, commit_counter, in_transaction,
                   uncommitted, idle>>

\* clear: DELETE FROM t, with no _do_write()
dict_clear ==
    /\ uncommitted < MaxUncommitted
    /\ db' = [db EXCEPT ![table_name] = EmptyTable]
    /\ in_transaction' = TRUE
    /\ uncommitted' = uncommitted + 1
    /\ last' = Returned("clear", NoValue, NoValue, NoValue)
    /\ UNCHANGED <<table_name, commit_every, commit_counter, idle>>

\* pop(key, default): val = self[key]; del self[key]; return val
DictPopResultMutant(rows, key, default) ==
    IF DictGetItemResult(rows, key).err = KeyNotFound
    THEN [ret |-> default, err |-> NoError]
    ELSE DictGetItemResult(rows, key)

DictPopResult(rows, key, default) == DictGetItemResult(rows, key)

dict_pop(key, default) ==
    LET res == DictPopResult(Rows, key, default) IN
    /\ IF res.err # NoError
       THEN /\ last' = Raised("pop", default, key, res.err)
            /\ UNCHANGED <<db, commit_counter, in_transaction, uncommitted>>
       ELSE /\ db' = [db EXCEPT ![table_name] = DictDelete(Rows, key)]
            /\ RecordWrite
            /\ last' = Returned("pop", default, key, res.ret)
    /\ UNCHANGED <<table_name, commit_every, idle>>

\* SELECT key, value FROM t LIMIT 1: the rows fetchone() may return
LimitOne(rows) == DOMAIN rows

\* popitem(): the row read is decoded, del self[key], return (key, value)
dict_popitem ==
    /\ IF LimitOne(Rows) = {}
       THEN /\ last' = Raised("popitem", NoValue, NoValue, DictEmpty)
            /\ UNCHANGED <<db, commit_counter, in_transaction, uncommitted>>
       ELSE \E pk \in LimitOne(Rows) :
               LET row == FetchOne(Rows, {pk})
                   value == IF row = {} THEN NoValue
                            ELSE decoder(CHOOSE text \in row : TRUE)
               IN /\ db' = [db EXCEPT ![table_name] = DictDelete(Rows, decoder(pk))]
                  /\ RecordWrite
                  /\ last' = Returned("popitem", NoValue, decoder(pk), value)
    /\ UNCHANGED <<table_name, commit_every, idle>>

NextDict ==
    \/ \E k \in DictKeys : dict_getitem(k)
    \/ \E k \in DictKeys, v \in Values : dict_setitem(k, v)
    \/ \E k \in DictKeys : dict_delitem(k)
    \/ \E k \in DictKeys : dict_contains(k)
    \/ dict_clear
    \/ \E k \in DictKeys, default \in Values \cup {NoDefault} : dict_pop(k, default)
    \/ dict_popitem

SpecDict == InitDict /\ [][NextDict]_vars

\* ------------------------------------- SqliteDict views (live queries)
\* a full-table scan without ORDER BY: the primary keys in the engine's order
RECURSIVE Scan(_)
Scan(rows) ==
    IF DOMAIN rows = {} THEN <<>>
    ELSE LET pk == CHOOSE q \in DOMAIN rows : TRUE
         IN <<pk>> \o Scan(Delete(rows, pk))

\* KeyView.__iter__: SELECT key FROM t
KeyViewIter(rows) ==
    [i \in 1..Len(Scan(rows)) |-> decoder(Scan(rows)[i])]

\* ItemView.__iter__: SELECT key, value FROM t
ItemViewIter(rows) ==
    [i \in 1..Len(Scan(rows)) |->
        <<decoder(Scan(rows)[i]), decoder(rows[Scan(rows)[i]])>>]

\* ValueView.__iter__: SELECT value FROM t
ValueViewIter(rows) ==
    [i \in 1..Len(Scan(rows)) |-> decoder(rows[Scan(rows)[i]])]

\* KeyView.__contains__: SELECT * FROM t WHERE key = ?
KeyViewContains(rows, key) == FetchOne(rows, {coder(key)}) # {}

\* ItemView.__contains__: SELECT * FROM t WHERE key = ? AND value = ?
ItemViewContains(rows, key, value) ==
    {pk \in DOMAIN rows : pk = coder(key) /\ rows[pk] = coder(value)} # {}

\* ValueView.__contains__: SELECT * FROM t WHERE value = ?
ValueViewContainsMutant(rows, value) == FetchOne(rows, {coder(value)}) # {}

ValueViewContains(rows, value) ==
    {pk \in DOMAIN rows : rows[pk] = coder(value)} # {}

\* the view holds only a reference to its dict: every use queries db anew
ViewIter(v) ==
    IF v = "keys" THEN KeyViewIter(Rows)
    ELSE IF v = "items" THEN ItemViewIter(Rows)
    ELSE ValueViewIter(Rows)

ViewContains(v, key, value) ==
    IF v = "keys" THEN KeyViewContains(Rows, key)
    ELSE IF v = "items" THEN ItemViewContains(Rows, key, value)
    ELSE ValueViewContains(Rows, value)

dict_keys ==
    /\ view' = "keys"
    /\ last' = Returned("keys", NoValue, NoValue, "KeyView")
    /\ UNCHANGED <<table_name, db, commit_every, commit_counter, in_transaction,
                   uncommitted, lock, pc>>

dict_items ==
    /\ view' = "items"
    /\ last' = Returned("items", NoValue, NoValue, "ItemView")
    /\ UNCHANGED <<table_name, db, commit_every, commit_counter, in_transaction,
                   uncommitted, lock, pc>>

dict_values ==
    /\ view' = "values"
    /\ last' = Returned("values", NoValue, NoValue, "ValueView")
    /\ UNCHANGED <<table_name, db, commit_every, commit_counter, in_transaction,
                   uncommitted, lock, pc>>

view_iter ==
    /\ view # NoView
    /\ last' = Call("view_iter", NoValue, NoValue, NoValue, ViewIter(view), NoError)
    /\ UNCHANGED <<table_name, db, commit_every, commit_counter, in_transaction,
                   uncommitted, idle>>

view_contains(key, value) ==
    /\ view # NoView
    /\ last' = Returned("view_contains", value, key,
                        IF ViewContains(view, key, value) THEN "True" ELSE "False")
    /\ UNCHANGED <<table_name, db, commit_every, commit_counter, in_transaction,
                   uncommitted, idle>>

NextView ==
    \/ \E k \in DictKeys, v \in Values : dict_setitem(k, v)
    \/ \E k \in DictKeys : dict_delitem(k)
    \/ dict_clear
    \/ dict_keys
    \/ dict_items
    \/ dict_values
    \/ view_iter
    \/ \E k \in DictKeys, v \in Values : view_contains(k, v)

SpecView == InitDict /\ [][NextView]_vars

\* --------------------------------------- SqliteDict used by two threads
\* `with self.lock:` on a reentrant lock: free, or already held by the caller
CanAcquire(t) == lock.owner \in {NoThread, t}

Acquired(t) == [owner |-> t, count |-> lock.count + 1]

\* leaving the `with self.lock:` block, on return or on an exception
Released ==
    IF lock.count = 1 THEN Unlocked ELSE [lock EXCEPT !.count = @ - 1]

At(op, at, key, val) == [op |-> op, at |-> at, key |-> key, val |-> val]

\* d[key] = value: enter `with self.lock:`
setitem_lock(t, key, value) ==
    /\ pc[t] = Idle
    /\ CanAcquire(t)
    /\ lock' = Acquired(t)
    /\ pc' = [pc EXCEPT ![t] = At("setitem", "replace", key, value)]
    /\ UNCHANGED <<table_name, db, commit_every, commit_counter, in_transaction,
                   last, uncommitted, view>>

\* d[key] = value: REPLACE INTO, _do_write(), leave the lock
setitem_execute(t) ==
    /\ pc[t].op = "setitem" /\ pc[t].at = "replace"
    /\ db' = [db EXCEPT ![table_name] = DictReplace(Rows, pc[t].key, pc[t].val)]
    /\ RecordWrite
    /\ lock' = Released
    /\ pc' = [pc EXCEPT ![t] = Idle]
    /\ last' = Returned("setitem", pc[t].val, pc[t].key, NoValue)
    /\ UNCHANGED <<table_name, commit_every, view>>

\* d.pop(key): enter `with self.lock:`
pop_lockMutant(t, key) ==
    /\ pc[t] = Idle
    /\ lock' = Acquired(t)
    /\ pc' = [pc EXCEPT ![t] = At("pop", "getitem", key, NoValue)]
    /\ UNCHANGED <<table_name, db, commit_every, commit_counter, in_transaction,
                   last, uncommitted, view>>

pop_lock(t, key) ==
    /\ pc[t] = Idle
    /\ CanAcquire(t)
    /\ lock' = Acquired(t)
    /\ pc' = [pc EXCEPT ![t] = At("pop", "getitem", key, NoValue)]
    /\ UNCHANGED <<table_name, db, commit_every, commit_counter, in_transaction,
                   last, uncommitted, view>>

\* d.pop(key): val = self[key]; a KeyError leaves the lock
pop_getitem(t) ==
    LET res == DictGetItemResult(Rows, pc[t].key) IN
    /\ pc[t].op = "pop" /\ pc[t].at = "getitem"
    /\ IF res.err = NoError
         THEN /\ pc' = [pc EXCEPT ![t] = At("pop", "delitem", pc[t].key, res.ret)]
              /\ UNCHANGED <<lock, last>>
         ELSE /\ pc' = [pc EXCEPT ![t] = Idle]
              /\ lock' = Released
              /\ last' = Raised("pop", NoValue, pc[t].key, res.err)
    /\ UNCHANGED <<table_name, db, commit_every, commit_counter, in_transaction,
                   uncommitted, view>>

\* d.pop(key): del self[key]; return val, leaving the lock
pop_delitem(t) ==
    /\ pc[t].op = "pop" /\ pc[t].at = "delitem"
    /\ db' = [db EXCEPT ![table_name] = DictDelete(Rows, pc[t].key)]
    /\ RecordWrite
    /\ lock' = Released
    /\ pc' = [pc EXCEPT ![t] = Idle]
    /\ last' = Returned("pop", NoValue, pc[t].key, pc[t].val)
    /\ UNCHANGED <<table_name, commit_every, view>>

\* key in d.keys(): KeyView.__contains__ is entered; it takes no lock
keys_contains_call(t, key) ==
    /\ pc[t] = Idle
    /\ pc' = [pc EXCEPT ![t] = At("keys_contains", "select", key, NoValue)]
    /\ UNCHANGED <<table_name, db, commit_every, commit_counter, in_transaction,
                   last, uncommitted, view, lock>>

\* key in d.keys(): the SELECT of KeyView.__contains__
keys_contains_execute(t) ==
    /\ pc[t].op = "keys_contains" /\ pc[t].at = "select"
    /\ pc' = [pc EXCEPT ![t] = Idle]
    /\ last' = Returned("keys_contains", NoValue, pc[t].key,
                        IF KeyViewContains(Rows, pc[t].key) THEN "True" ELSE "False")
    /\ UNCHANGED <<table_name, db, commit_every, commit_counter, in_transaction,
                   uncommitted, view, lock>>

NextThreads ==
    \/ \E t \in Threads, k \in DictKeys, v \in Values : setitem_lock(t, k, v)
    \/ \E t \in Threads : setitem_execute(t)
    \/ \E t \in Threads, k \in DictKeys : pop_lock(t, k)
    \/ \E t \in Threads : pop_getitem(t)
    \/ \E t \in Threads : pop_delitem(t)
    \/ \E t \in Threads, k \in DictKeys : keys_contains_call(t, k)
    \/ \E t \in Threads : keys_contains_execute(t)

SpecThreads == InitDict /\ [][NextThreads]_vars

\* ------------------------------- SqliteList iterated by two threads
\* the row an ORDER BY list_index ASC cursor steps to after position p
RowAfter(rows, p) ==
    IF {q \in DOMAIN rows : q > p} = {} THEN {}
    ELSE {Min({q \in DOMAIN rows : q > p})}

\* l.append(item) called by thread t: the whole call, inside the lock
append_by(t, item) ==
    /\ pc[t] = Idle
    /\ CanAcquire(t)
    /\ append(item)

\* l.pop_first() called by thread t: the whole call, inside the lock
pop_first_by(t) ==
    /\ pc[t] = Idle
    /\ CanAcquire(t)
    /\ pop_first

\* first next() on iter(l): enter `with self.lock:`, SELECT, then either
\* yield the first row inside the with-block or run off the end
iter_start(t) ==
    /\ pc[t] = Idle
    /\ CanAcquire(t)
    /\ IF getmin(Rows) = {}
       THEN /\ last' = Call("iter", NoValue, 0, "StopIteration", <<>>, NoError)
            /\ UNCHANGED <<lock, pc>>
       ELSE LET p == CHOOSE q \in getmin(Rows) : TRUE IN
            /\ lock' = Acquired(t)
            /\ pc' = [pc EXCEPT ![t] = At("iter", "yield", NoValue, p)]
            /\ last' = Call("iter", NoValue, 0, decoder(Rows[p]), <<>>, NoError)
    /\ UNCHANGED <<table_name, db, commit_every, commit_counter, in_transaction,
                   uncommitted, view>>

\* a later next(): resume after the yield, step the cursor, yield again
\* or leave the with-block at the end of the rows
iter_next(t) ==
    /\ pc[t].op = "iter" /\ pc[t].at = "yield"
    /\ IF RowAfter(Rows, pc[t].val) = {}
       THEN /\ lock' = Released
            /\ pc' = [pc EXCEPT ![t] = Idle]
            /\ last' = Call("iter", NoValue, 0, "StopIteration", <<>>, NoError)
       ELSE LET p == CHOOSE q \in RowAfter(Rows, pc[t].val) : TRUE IN
            /\ pc' = [pc EXCEPT ![t] = At("iter", "yield", NoValue, p)]
            /\ last' = Call("iter", NoValue, 0, decoder(Rows[p]), <<>>, NoError)
            /\ UNCHANGED lock
    /\ UNCHANGED <<table_name, db, commit_every, commit_counter, in_transaction,
                   uncommitted, view>>

InitIter ==
    /\ InitList
    /\ table_name = ListTableName("")

NextIter ==
    \/ \E t \in Threads, v \in Values : append_by(t, v)
    \/ \E t \in Threads : pop_first_by(t)
    \/ \E t \in Threads : iter_start(t)
    \/ \E t \in Threads : iter_next(t)

SpecIter == InitIter /\ [][NextIter]_vars

\* -------------------------------------------------------- SqliteSet
SetTableName(name) == IF name = "" THEN "set_table" ELSE name \o "_set_table"

InitSet ==
    /\ \E name \in Names :
          /\ table_name = SetTableName(name)
          /\ db = [t \in {SetTableName(name)} |-> EmptyTable]
    /\ commit_every \in 0..MaxCommitEvery
    /\ commit_counter = 0
    /\ in_transaction = FALSE
    /\ last = Call("init", NoValue, NoValue, NoValue, <<>>, NoError)
    /\ uncommitted = 0
    /\ view = NoView
    /\ lock = Unlocked
    /\ pc = [t \in Threads |-> Idle]

\* _has: SELECT key FROM t WHERE key = ?; fetchone() is not None
SetHasMutant(rows, item) == TRUE

SetHas(rows, item) == FetchOne(rows, {coder(item)}) # {}

\* _add: INSERT OR IGNORE INTO t (key) VALUES (?)
SetAddMutant(rows, item) ==
    IF InsertConflicts(rows, coder(item))
    THEN [rows |-> rows, err |-> IntegrityError]
    ELSE [rows |-> Put(rows, coder(item), coder(item)), err |-> NoError]

SetAdd(rows, item) ==
    IF InsertConflicts(rows, coder(item))
    THEN [rows |-> rows, err |-> NoError]
    ELSE [rows |-> Put(rows, coder(item), coder(item)), err |-> NoError]

\* _discard: DELETE FROM t WHERE key = ?
SetDiscardMutant(rows, item) == EmptyTable

SetDiscard(rows, item) == Delete(rows, coder(item))

Members == {decoder(pk) : pk \in DOMAIN Rows}

set_add(item) ==
    LET res == SetAdd(Rows, item) IN
    /\ IF res.err # NoError
       THEN /\ last' = Raised("add", item, NoValue, res.err)
            /\ UNCHANGED <<db, commit_counter, in_transaction, uncommitted>>
       ELSE /\ db' = [db EXCEPT ![table_name] = res.rows]
            /\ RecordWrite
            /\ last' = Returned("add", item, NoValue, NoValue)
    /\ UNCHANGED <<table_name, commit_every, idle>>

\* remove: _remove raises KeyError for a non-member before _do_write()
set_remove(item) ==
    /\ IF SetHas(Rows, item)
       THEN /\ db' = [db EXCEPT ![table_name] = SetDiscard(Rows, item)]
            /\ RecordWrite
            /\ last' = Returned("remove", item, NoValue, NoValue)
       ELSE /\ last' = Raised("remove", item, NoValue, SetKeyNotFound)
            /\ UNCHANGED <<db, commit_counter, in_transaction, uncommitted>>
    /\ UNCHANGED <<table_name, commit_every, idle>>

set_discard(item) ==
    /\ db' = [db EXCEPT ![table_name] = SetDiscard(Rows, item)]
    /\ RecordWrite
    /\ last' = Returned("discard", item, NoValue, NoValue)
    /\ UNCHANGED <<table_name, commit_every, idle>>

\* pop(): SELECT key FROM t LIMIT 1; _discard of the decoded row; _do_write()
set_pop ==
    /\ IF LimitOne(Rows) = {}
       THEN /\ last' = Raised("pop", NoValue, NoValue, SetEmpty)
            /\ UNCHANGED <<db, commit_counter, in_transaction, uncommitted>>
       ELSE \E pk \in LimitOne(Rows) :
               /\ db' = [db EXCEPT ![table_name] = SetDiscard(Rows, decoder(pk))]
               /\ RecordWrite
               /\ last' = Returned("pop", NoValue, NoValue, decoder(pk))
    /\ UNCHANGED <<table_name, commit_every, idle>>

set_contains(item) ==
    /\ last' = Returned("contains", item, NoValue,
                        IF SetHas(Rows, item) THEN "True" ELSE "False")
    /\ UNCHANGED <<table_name, db, commit_every, commit_counter, in_transaction,
                   uncommitted, idle>>

\* clear: DELETE FROM t, with no _do_write()
set_clear ==
    /\ uncommitted < MaxUncommitted
    /\ db' = [db EXCEPT ![table_name] = EmptyTable]
    /\ in_transaction' = TRUE
    /\ uncommitted' = uncommitted + 1
    /\ last' = Returned("clear", NoValue, NoValue, NoValue)
    /\ UNCHANGED <<table_name, commit_every, commit_counter, idle>>

NextSet ==
    \/ \E x \in Items : set_add(x)
    \/ \E x \in Items : set_remove(x)
    \/ \E x \in Items : set_discard(x)
    \/ set_pop
    \/ \E x \in Items : set_contains(x)
    \/ set_clear

SpecSet == InitSet /\ [][NextSet]_vars

\* --------------------------------------------- SqliteSet comparisons
\* the other operand: a sequence, which may hold an item more than once
Others == UNION {[1..n -> Items] : n \in 0..MaxOther}

\* item in other, for a sequence operand
InOther(other, item) == \E i \in 1..Len(other) : other[i] = item

Bool(b) == IF b THEN "True" ELSE "False"

\* all((item not in other) for item in self)
isdisjoint(rows, other) ==
    \A pk \in DOMAIN rows : ~InOther(other, decoder(pk))

\* all((item in other) for item in self)
issubset(rows, other) ==
    \A pk \in DOMAIN rows : InOther(other, decoder(pk))

\* self.issubset(other) and (len(self) < len(other))
lt(rows, other) == issubset(rows, other) /\ getlen(rows) < Len(other)

\* all((item in self) for item in other)
issuperset(rows, other) ==
    \A i \in 1..Len(other) : SetHas(rows, other[i])

\* self.issuperset(other) and (len(self) > len(other))
gt(rows, other) == issuperset(rows, other) /\ getlen(rows) > Len(other)

\* len(self) == len(other) and all((item in other) for item in self)
eq(rows, other) ==
    IF getlen(rows) # Len(other) THEN FALSE ELSE issubset(rows, other)

set_isdisjoint(other) ==
    /\ last' = Returned("isdisjoint", other, NoValue, Bool(isdisjoint(Rows, other)))
    /\ UNCHANGED <<table_name, db, commit_every, commit_counter, in_transaction,
                   uncommitted, idle>>

set_issubset(other) ==
    /\ last' = Returned("issubset", other, NoValue, Bool(issubset(Rows, other)))
    /\ UNCHANGED <<table_name, db, commit_every, commit_counter, in_transaction,
                   uncommitted, idle>>

set_lt(other) ==
    /\ last' = Returned("lt", other, NoValue, Bool(lt(Rows, other)))
    /\ UNCHANGED <<table_name, db, commit_every, commit_counter, in_transaction,
                   uncommitted, idle>>

set_issuperset(other) ==
    /\ last' = Returned("issuperset", other, NoValue, Bool(issuperset(Rows, other)))
    /\ UNCHANGED <<table_name, db, commit_every, commit_counter, in_transaction,
                   uncommitted, idle>>

set_gt(other) ==
    /\ last' = Returned("gt", other, NoValue, Bool(gt(Rows, other)))
    /\ UNCHANGED <<table_name, db, commit_every, commit_counter, in_transaction,
                   uncommitted, idle>>

set_eq(other) ==
    /\ last' = Returned("eq", other, NoValue, Bool(eq(Rows, other)))
    /\ UNCHANGED <<table_name, db, commit_every, commit_counter, in_transaction,
                   uncommitted, idle>>

NextAlgebra ==
    \/ \E x \in Items : set_add(x)
    \/ \E x \in Items : set_discard(x)
    \/ \E other \in Others : set_isdisjoint(other)
    \/ \E other \in Others : set_issubset(other)
    \/ \E other \in Others : set_lt(other)
    \/ \E other \in Others : set_issuperset(other)
    \/ \E other \in Others : set_gt(other)
    \/ \E other \in Others : set_eq(other)

SpecAlgebra == InitSet /\ [][NextAlgebra]_vars

\* ------------------------------------------- any one of the containers
IsList == table_name \in {ListTableName(name) : name \in Names}

IsDict == table_name \in {DictTableName(name) : name \in Names}

IsSet == table_name \in {SetTableName(name) : name \in Names}

\* one map or one set
NextMapSet ==
    \/ IsDict /\ \E k \in DictKeys, v \in Values : dict_setitem(k, v)
    \/ IsDict /\ \E k \in DictKeys : dict_delitem(k)
    \/ IsDict /\ dict_clear
    \/ IsDict /\ dict_popitem
    \/ IsSet /\ \E x \in Items : set_add(x)
    \/ IsSet /\ \E x \in Items : set_discard(x)
    \/ IsSet /\ set_clear
    \/ IsSet /\ set_pop

SpecMapSet == (InitDict \/ InitSet) /\ [][NextMapSet]_vars

\* one container of any kind under the calls that end in _do_write()
NextBatch ==
    \/ IsList /\ \E v \in Values : append(v)
    \/ IsList /\ \E v \in Values : prepend(v)
    \/ IsList /\ \E k \in Indexes, v \in Values : setitem(k, v)
    \/ IsList /\ pop_first
    \/ IsList /\ pop_last
    \/ IsDict /\ \E k \in DictKeys, v \in Values : dict_setitem(k, v)
    \/ IsDict /\ \E k \in DictKeys : dict_delitem(k)
    \/ IsSet /\ \E x \in Items : set_add(x)
    \/ IsSet /\ \E x \in Items : set_remove(x)
    \/ IsSet /\ \E x \in Items : set_discard(x)

SpecBatch == (InitList \/ InitDict \/ InitSet) /\ [][NextBatch]_vars

\* --------------------------- pops of one container from two threads
\* l.pop_last(): enter `with self.lock:`, BEGIN TRANSACTION
pop_last_begin(t) ==
    /\ pc[t] = Idle
    /\ CanAcquire(t)
    /\ IF in_transaction
       THEN /\ last' = Raised("pop_last", NoValue, 0, NestedTransaction)
            /\ UNCHANGED <<in_transaction, lock, pc>>
       ELSE /\ in_transaction' = TRUE
            /\ lock' = Acquired(t)
            /\ pc' = [pc EXCEPT ![t] = At("pop_last", "getlen", NoValue, NoValue)]
            /\ UNCHANGED last
    /\ UNCHANGED <<table_name, db, commit_every, commit_counter, uncommitted, view>>

\* l.pop_last(): if self._getlen(cursor) < 1: cusror.execute(...)
pop_last_getlen(t) ==
    /\ pc[t].op = "pop_last" /\ pc[t].at = "getlen"
    /\ IF getlen(Rows) < 1
       THEN /\ lock' = Released
            /\ pc' = [pc EXCEPT ![t] = Idle]
            /\ last' = Raised("pop_last", NoValue, 0, NameErrorCusror)
       ELSE /\ pc' = [pc EXCEPT ![t] = At("pop_last", "select", NoValue, NoValue)]
            /\ UNCHANGED <<lock, last>>
    /\ UNCHANGED <<table_name, db, commit_every, commit_counter, in_transaction,
                   uncommitted, view>>

\* l.pop_last(): SELECT value ... WHERE list_index = (SELECT MAX ...)
pop_last_select(t) ==
    LET row == FetchOne(Rows, PopLastIndex(Rows)) IN
    /\ pc[t].op = "pop_last" /\ pc[t].at = "select"
    /\ row # {}
    /\ pc' = [pc EXCEPT ![t] = At("pop_last", "delete", NoValue,
                                  decoder(CHOOSE text \in row : TRUE))]
    /\ UNCHANGED <<table_name, db, commit_every, commit_counter, in_transaction,
                   last, uncommitted, view, lock>>

\* l.pop_last(): DELETE ... WHERE list_index = (SELECT MAX ...), commit,
\* _do_write(), return output on leaving the lock
pop_last_delete(t) ==
    /\ pc[t].op = "pop_last" /\ pc[t].at = "delete"
    /\ db' = [db EXCEPT ![table_name] =
                 IF PopLastIndex(Rows) = {} THEN Rows
                 ELSE Delete(Rows, CHOOSE p \in PopLastIndex(Rows) : TRUE)]
    /\ in_transaction' = FALSE
    /\ uncommitted' = 0
    /\ commit_counter' = DoWriteCounter(commit_counter)
    /\ lock' = Released
    /\ pc' = [pc EXCEPT ![t] = Idle]
    /\ last' = Returned("pop_last", NoValue, 0, pc[t].val)
    /\ UNCHANGED <<table_name, commit_every, view>>

NextPops ==
    \/ IsList /\ \E t \in Threads, v \in Values : append_by(t, v)
    \/ IsList /\ \E t \in Threads : pop_first_by(t)
    \/ IsList /\ \E t \in Threads : pop_last_begin(t)
    \/ IsList /\ \E t \in Threads : pop_last_getlen(t)
    \/ IsList /\ \E t \in Threads : pop_last_select(t)
    \/ IsList /\ \E t \in Threads : pop_last_delete(t)
    \/ IsDict /\ \E t \in Threads, k \in DictKeys, v \in Values : setitem_lock(t, k, v)
    \/ IsDict /\ \E t \in Threads : setitem_execute(t)
    \/ IsDict /\ \E t \in Threads, k \in DictKeys : pop_lock(t, k)
    \/ IsDict /\ \E t \in Threads : pop_getitem(t)
    \/ IsDict /\ \E t \in Threads : pop_delitem(t)

SpecPops == (InitList \/ InitDict) /\ [][NextPops]_vars

\* ------------------------------------------------ sequence properties
Contents == Ascending(Rows)

Length == getlen(Rows)

RECURSIVE Reverse(_)
Reverse(seq) ==
    IF seq = <<>> THEN <<>> ELSE Append(Reverse(Tail(seq)), Head(seq))

Front(seq) == SubSeq(seq, 1, Len(seq) - 1)

Got(v) == [ret |-> v, err |-> NoError]

\* C1: append(v) succeeds from every state, the contents become the old
\* contents followed by v, the length grows by one, get(length-1) gives v
\* and every earlier element keeps its logical index.
C1_AppendExtendsAtEnd ==
    [][\A v \in Values :
         append(v) =>
            /\ last'.err = NoError
            /\ Contents' = Append(Contents, v)
            /\ Length' = Length + 1
            /\ GetItemResult(Rows', Length' - 1) = Got(v)
            /\ \A i \in 0..(Length - 1) :
                  GetItemResult(Rows', i) = GetItemResult(Rows, i)]_vars

C1_Witness ==
    /\ last.op = "append"
    /\ last.err = NoError
    /\ Length >= 2
    /\ GetItemResult(Rows, Length - 1) = Got(last.arg)

\* C2: prepend(v) succeeds from every state, the contents become v followed
\* by the old contents, the length grows by one, get(0) gives v, every
\* earlier element moves up one logical index and no stored row changes.
C2_PrependExtendsAtFront ==
    [][\A v \in Values :
         prepend(v) =>
            /\ last'.err = NoError
            /\ Contents' = <<v>> \o Contents
            /\ Length' = Length + 1
            /\ GetItemResult(Rows', 0) = Got(v)
            /\ \A i \in 0..(Length - 1) :
                  GetItemResult(Rows', i + 1) = GetItemResult(Rows, i)
            /\ \A p \in DOMAIN Rows :
                  p \in DOMAIN Rows' /\ Rows'[p] = Rows[p]]_vars

C2_Witness ==
    /\ last.op = "prepend"
    /\ last.err = NoError
    /\ Length >= 2
    /\ GetItemResult(Rows, 0) = Got(last.arg)
    /\ Contents[2] # last.arg

\* C3: on a non-empty sequence pop_first returns the element at logical
\* index 0 and pop_last the one at index length-1; exactly that row is
\* gone, the length is one less and the rest keeps its order.
C3_PopReturnsEnd ==
    [][Length >= 1 =>
         /\ pop_first =>
               /\ last'.err = NoError
               /\ last'.ret = Head(Contents)
               /\ Contents' = Tail(Contents)
               /\ Length' = Length - 1
         /\ pop_last =>
               /\ last'.err = NoError
               /\ last'.ret = Contents[Length]
               /\ Contents' = Front(Contents)
               /\ Length' = Length - 1]_vars

\* C4: pop_first and pop_last on a sequence without rows fail with
\* EmptyContainer and with no other error, and the sequence stays empty.
C4_PopEmptyRaisesEmptyContainer ==
    [][Length = 0 =>
         /\ pop_first => (last'.err = EmptyContainer /\ Length' = 0)
         /\ pop_last => (last'.err = EmptyContainer /\ Length' = 0)]_vars

\* C5: in every reachable state get(i) for 0 <= i < length returns the
\* i-th element of the ascending scan without failing, and the descending
\* scan is the reverse of the ascending one.
C5_IndexAgreesWithScan ==
    /\ \A i \in 0..(Length - 1) : GetItemResult(Rows, i) = Got(Contents[i + 1])
    /\ Descending(Rows) = Reverse(Contents)

C5_Witness ==
    /\ last.op = "getitem"
    /\ last.err = NoError
    /\ last.key >= 1
    /\ Length = MaxLen
    /\ Min(DOMAIN Rows) < 0
    /\ last.ret = Contents[last.key + 1]
    /\ Contents[1] # last.ret

\* C6: in every reachable state and for 0 <= i < length, get(-1 - i)
\* returns the value get(length - 1 - i) returns.
C6_NegativeIndexLaw ==
    \A i \in 0..(Length - 1) :
        /\ GetItemResult(Rows, -1 - i) = GetItemResult(Rows, Length - 1 - i)
        /\ GetItemResult(Rows, -1 - i).err = NoError

C6_Witness ==
    /\ last.op = "getitem"
    /\ last.key < 0
    /\ last.err = NoError
    /\ Length >= 2
    /\ last.ret = Contents[Length + last.key + 1]
    /\ Contents[1] # Contents[Length]

\* C7: for i >= length or i < -length, get(i) and set(i, v) fail with
\* IndexOutOfRange, write nothing and leave contents and length unchanged.
C7_OutOfRangeRaises ==
    [][\A k \in Indexes :
         (k >= Length \/ k < -Length) =>
            /\ getitem(k) =>
                  /\ last'.err = IndexOutOfRange
                  /\ UNCHANGED <<db, commit_counter, in_transaction, uncommitted>>
            /\ \A v \in Values :
                  setitem(k, v) =>
                     /\ last'.err = IndexOutOfRange
                     /\ UNCHANGED <<db, commit_counter, in_transaction, uncommitted>>]_vars

C7_Witness ==
    /\ last.op = "setitem"
    /\ last.err = IndexOutOfRange
    /\ Length >= 1
    /\ last.key = Length

\* C8: set(i, v) with a valid index overwrites in place in the sequence's
\* own table, for the legacy table name and for a named sequence alike:
\* get(i) then returns v, no row is added or removed and the elements at
\* the other indices are unchanged.
C8_SetOverwritesInPlace ==
    [][\A k \in Indexes, v \in Values :
         (SetResolve(k, Length) # {} /\ setitem(k, v)) =>
            /\ last'.err = NoError
            /\ GetItemResult(Rows', k) = Got(v)
            /\ DOMAIN Rows' = DOMAIN Rows
            /\ \A j \in 0..(Length - 1) :
                  j \notin SetResolve(k, Length) =>
                     GetItemResult(Rows', j) = GetItemResult(Rows, j)]_vars

\* ----------------------------------------------------- map properties
\* C9: set(k, v) is a functional update: get(k) then returns v, every other
\* key keeps its value (or its absence), and the length grows by one if k
\* was absent and is unchanged if k was present.
C9_DictSetIsFunctionalUpdate ==
    [][\A k \in DictKeys, v \in Values :
         dict_setitem(k, v) =>
            /\ last'.err = NoError
            /\ DictGetItemResult(Rows', k) = Got(v)
            /\ \A j \in DictKeys \ {k} :
                  DictGetItemResult(Rows', j) = DictGetItemResult(Rows, j)
            /\ Length' = IF DictGetItemResult(Rows, k).err = KeyNotFound
                         THEN Length + 1 ELSE Length]_vars

C9_Witness ==
    /\ last.op = "setitem"
    /\ last.err = NoError
    /\ DictGetItemResult(Rows, last.key) = Got(last.arg)
    /\ Length >= 2
    /\ \E j \in DictKeys : DictGetItemResult(Rows, j) \notin
                              {Got(last.arg), [ret |-> NoValue, err |-> KeyNotFound]}

\* C10: delete(k) of an absent key fails with KeyNotFound and leaves the
\* map unchanged; delete(k) of a present key removes exactly that row.
C10_DictDeleteAbsentRaises ==
    [][\A k \in DictKeys :
         dict_delitem(k) =>
            IF DictGetItemResult(Rows, k).err = KeyNotFound
            THEN last'.err = KeyNotFound /\ Rows' = Rows
            ELSE /\ last'.err = NoError
                 /\ DictGetItemResult(Rows', k).err = KeyNotFound
                 /\ \A j \in DictKeys \ {k} :
                       DictGetItemResult(Rows', j) = DictGetItemResult(Rows, j)]_vars

Absent == [ret |-> NoValue, err |-> KeyNotFound]

C12_ArbitraryPop ==
    [][/\ (IsDict /\ dict_popitem) =>
             IF Length = 0
             THEN /\ last'.err \in EmptyContainerKind
                  /\ UNCHANGED <<db, commit_counter, in_transaction>>
             ELSE /\ last'.err = NoError
                  /\ DictGetItemResult(Rows, last'.key) = Got(last'.ret)
                  /\ Rows' = Delete(Rows, coder(last'.key))
                  /\ Length' = Length - 1
       /\ (IsSet /\ set_pop) =>
             IF Length = 0
             THEN /\ last'.err \in EmptyContainerKind
                  /\ UNCHANGED <<db, commit_counter, in_transaction>>
             ELSE /\ last'.err = NoError
                  /\ last'.ret \in Members
                  /\ Rows' = Delete(Rows, coder(last'.ret))
                  /\ Length' = Length - 1]_vars

C12_Witness ==
    /\ last.op \in {"popitem", "pop"}
    /\ last.err = NoError
    /\ Length >= 1
    /\ IsDict

\* C13: add(x) of a member succeeds and leaves membership and length
\* unchanged; add(x) of a non-member adds exactly x, so the length is the
\* number of distinct members.
C13_SetAddIdempotent ==
    [][\A x \in Items :
         set_add(x) =>
            /\ last'.err = NoError
            /\ Members' = Members \cup {x}
            /\ Length' = Cardinality(Members \cup {x})
            /\ (x \in Members => Rows' = Rows)]_vars

C13_Witness ==
    /\ last.op = "add"
    /\ last.err = NoError
    /\ commit_every = 2
    /\ commit_counter = 0
    /\ ~in_transaction
    /\ Length = 1

\* C14: discard(x) never raises; afterwards x is not a member, the other
\* members are unchanged, and a second discard(x) would change nothing.
C14_SetDiscard ==
    [][\A x \in Items :
         set_discard(x) =>
            /\ last'.err = NoError
            /\ Members' = Members \ {x}
            /\ SetDiscard(Rows', x) = Rows']_vars

C14_Witness ==
    /\ last.op = "discard"
    /\ last.err = NoError
    /\ Length >= 1
    /\ commit_counter = 1

\* C15: remove(x) of a non-member fails with KeyNotFound, leaves the set
\* unchanged and records no write; remove(x) of a member removes exactly x.
C15_SetRemove ==
    [][\A x \in Items :
         set_remove(x) =>
            IF x \in Members
            THEN /\ last'.err = NoError
                 /\ Members' = Members \ {x}
            ELSE /\ last'.err \in KeyNotFoundKind
                 /\ UNCHANGED <<db, commit_counter, in_transaction, uncommitted>>]_vars

C15_Witness ==
    /\ last.op = "remove"
    /\ last.err \in KeyNotFoundKind
    /\ Length >= 1
    /\ commit_counter = 1

\* ------------------------------------------------- engine properties
\* C16: with commit_every = N >= 1, a successful mutating call issues a
\* commit exactly when the mutations since the previous commit reach N:
\* the call ends with nothing uncommitted if and only if it was the N-th
\* mutation since the last commit.
C16_CommitExactlyEveryN ==
    [][(commit_every >= 1 /\ last'.err = NoError) =>
          ((uncommitted' = 0) <=> (uncommitted + 1 >= commit_every))]_vars

\* C17: between calls the mutations not yet covered by a commit number at
\* most commit_every - 1, and none when commit_every is 0.
C17_BoundedUncommitted ==
    uncommitted <= (IF commit_every = 0 THEN 0 ELSE commit_every - 1)

\* ---------------------------------------------------- view properties
Count(seq, x) == Cardinality({i \in 1..Len(seq) : seq[i] = x})

\* C19: whenever a view is held, also right after a mutation made through
\* the container, iterating it yields exactly the current keys, pairs or
\* values and its membership test agrees with the current table.
C19_ViewsAreLive ==
    view # NoView =>
       /\ Len(ViewIter(view)) = Length
       /\ view = "keys" =>
             /\ \A k \in DictKeys :
                   Count(ViewIter(view), k) =
                      (IF DictGetItemResult(Rows, k) = Absent THEN 0 ELSE 1)
             /\ \A k \in DictKeys, v \in Values :
                   ViewContains(view, k, v) <=> DictGetItemResult(Rows, k) # Absent
       /\ view = "items" =>
             /\ \A k \in DictKeys, v \in Values :
                   Count(ViewIter(view), <<k, v>>) =
                      (IF DictGetItemResult(Rows, k) = Got(v) THEN 1 ELSE 0)
             /\ \A k \in DictKeys, v \in Values :
                   ViewContains(view, k, v) <=> DictGetItemResult(Rows, k) = Got(v)
       /\ view = "values" =>
             /\ \A v \in Values :
                   Count(ViewIter(view), v) =
                      Cardinality({k \in DictKeys : DictGetItemResult(Rows, k) = Got(v)})
             /\ \A k \in DictKeys, v \in Values :
                   ViewContains(view, k, v) <=>
                      \E j \in DictKeys : DictGetItemResult(Rows, j) = Got(v)

\* a view obtained earlier is held while the last call was a mutation
C19_Witness ==
    /\ view = "values"
    /\ last.op = "delitem"
    /\ Length = 2
    /\ ViewIter(view) = <<"a", "a">>
    /\ ~ViewContains(view, "k1", "b")

\* ---------------------------------------------------- lock properties
\* thread t executes the statement its operation is positioned at
ExecutesStatement(t) == pc[t] # Idle /\ pc'[t] # pc[t]

\* C18: every statement of a public operation, view membership tests
\* included, is executed while the calling thread holds the container's lock.
C18_StatementsUnderLock ==
    [][\A t \in Threads : ExecutesStatement(t) => lock.owner = t]_vars

\* --------------------------------------------------- slice properties
\* where a slice component points in a sequence of the given length
SliceClamp(bound, length, lower, upper, default) ==
    IF bound = {} THEN default
    ELSE LET n == CHOOSE m \in bound : TRUE
             k == IF n < 0 THEN n + length ELSE n
         IN IF k < lower THEN lower ELSE IF k > upper THEN upper ELSE k

\* the logical indices Python selects, as a set, for a forward step
ForwardIndices(length, start, stop, st) ==
    LET lo == SliceClamp(start, length, 0, length, 0)
        hi == SliceClamp(stop, length, 0, length, length)
    IN {i \in 0..(length - 1) : lo <= i /\ i < hi /\ (i - lo) % st = 0}

\* the same for a backward step of size st
BackwardIndices(length, start, stop, st) ==
    LET hi == SliceClamp(start, length, -1, length - 1, length - 1)
        lo == SliceClamp(stop, length, -1, length - 1, -1)
    IN {i \in 0..(length - 1) : i <= hi /\ lo < i /\ (hi - i) % st = 0}

\* C20: a slice of the list yields one element per logical index that
\* Python's range(length)[start:stop:step] selects, each the element at
\* that index, ascending for a positive and descending for a negative
\* step, and nothing more.
C20_SliceYieldsRangeIndices ==
    [][(last'.op = "getslice" /\ last'.err = NoError) =>
         LET start == last'.arg[1]
             stop  == last'.arg[2]
             st    == IF last'.arg[3] = {} THEN 1
                      ELSE CHOOSE m \in last'.arg[3] : TRUE
             idx   == IF st > 0
                      THEN ForwardIndices(Length', start, stop, st)
                      ELSE BackwardIndices(Length', start, stop, -st)
             out   == last'.out
         IN /\ Len(out) = Cardinality(idx)
            /\ \A j \in 1..Len(out) :
                  \E i \in idx :
                     /\ Cardinality({h \in idx : IF st > 0 THEN h < i ELSE h > i})
                           = j - 1
                     /\ out[j] = Contents'[i + 1]]_vars

C20_Witness ==
    /\ last.op = "getslice"
    /\ Contents = <<"a", "b", "b">>
    /\ \/ last.arg = <<{}, {}, {-1}>> /\ last.out = <<"b", "b", "a">>
       \/ last.arg = <<{-3}, {2}, {1}>> /\ last.out = <<"a", "b">>

\* ------------------------------------------------ set-algebra properties
Comparisons == {"isdisjoint", "issubset", "lt", "issuperset", "gt", "eq"}

Distinct(other) == {other[i] : i \in 1..Len(other)}

\* the relation between two sets of items that a comparison stands for
Relation(op, mine, theirs) ==
    IF op = "isdisjoint" THEN mine \cap theirs = {}
    ELSE IF op = "issubset" THEN mine \subseteq theirs
    ELSE IF op = "lt" THEN mine \subseteq theirs /\ mine # theirs
    ELSE IF op = "issuperset" THEN theirs \subseteq mine
    ELSE IF op = "gt" THEN theirs \subseteq mine /\ mine # theirs
    ELSE mine = theirs

\* C21: every set comparison against an operand that supports membership
\* and iteration, duplicates allowed, returns the mathematical relation
\* between the set's members and the operand's distinct elements.
C21_SetAlgebra ==
    [][last'.op \in Comparisons =>
         last'.ret = Bool(Relation(last'.op, Members', Distinct(last'.arg)))]_vars

\* ---------------------------------------------- isolation properties
\* C22: no operation of the sequence named "seq" adds, changes or removes
\* a row of the other sequence's table in the same file.
C22_TableIsolation ==
    [][db'[ListTableName("")] = db[ListTableName("")]]_vars

\* ----------------------------------------------- position properties
\* C23: the stored positions of a sequence form a contiguous interval, so
\* the lookup at MIN(position) + i finds a row for every index below the
\* length.
C23_GapFree ==
    /\ Length = 0 \/ Max(DOMAIN Rows) - Min(DOMAIN Rows) + 1 = Length
    /\ \A i \in 0..(Length - 1) : FetchOne(Rows, SqlAdd(getmin(Rows), i)) # {}

\* a list whose rows lie below position 0, after prepends and pops at the
\* end, and whose element was then set
C23_Witness ==
    /\ Length = 2
    /\ getmin(Rows) = {-2}
    /\ last.op = "setitem"
    /\ last.err = NoError

\* C24: a pop_first or pop_last that fails on an empty sequence with no
\* transaction open leaves no transaction open and the lock free, as on a
\* freshly constructed sequence.
C24_FailedPopLeavesNothingOpen ==
    [][(/\ last'.op \in {"pop_first", "pop_last"}
        /\ last'.err # NoError
        /\ Length = 0
        /\ ~in_transaction)
          => (~in_transaction' /\ lock' = Unlocked)]_vars

\* ------------------------------------------------ iterator properties
\* C25: between calls, when no thread is executing inside a method of the
\* container, the lock is free; a suspended iterator does not keep it.
C25_LockFreeBetweenCalls == lock = Unlocked

\* ---------------------------------------------------- pop properties
\* thread t has read the element it pops and has not yet deleted it
MidPop(t) == pc[t].at \in {"delitem", "delete"}

\* C26: a pop is atomic for the other callers of the container: no step of
\* another thread changes the table between the read and the delete of a
\* pop, and the delete removes exactly the entry whose value the pop
\* returns, making the table one shorter.
C26_PopsAreAtomic ==
    [][\A t \in Threads :
         MidPop(t) =>
            IF pc'[t] = pc[t] THEN db' = db
            ELSE /\ last'.ret = pc[t].val
                 /\ Length' = Length - 1
                 /\ IF pc[t].op = "pop"
                    THEN /\ DictGetItemResult(Rows, pc[t].key) = Got(pc[t].val)
                         /\ Rows' = Delete(Rows, coder(pc[t].key))
                    ELSE /\ Rows[Max(DOMAIN Rows)] = coder(pc[t].val)
                         /\ Rows' = Delete(Rows, Max(DOMAIN Rows))]_vars

\* one pop of the map has returned and a pop of another key, by either
\* thread, has read its value and is about to delete it
C26_Witness ==
    /\ last.op = "pop"
    /\ last.err = NoError
    /\ \E t \in Threads :
          /\ pc[t].op = "pop" /\ pc[t].at = "delitem"
          /\ pc[t].key # last.key
          /\ lock.owner = t
====
